---- MODULE Spec2Model ----
(***************************************************************************)
(* A model of the obsidian-git backup plugin (src/main.ts): the plugin's   *)
(* activation (onload), its backup and pull cycles, the backup timer, the  *)
(* interval setting and the status bar.                                    *)
(*                                                                         *)
(* JavaScript runs one callback at a time, and an async function runs      *)
(* without interruption from one await to the next.  Every action below is *)
(* therefore one such stretch: the completion of the operation a function  *)
(* is awaiting, followed by everything the function does until it awaits   *)
(* again or returns.                                                       *)
(*                                                                         *)
(* The version-control client (simple-git 2.x) is outside the repository.  *)
(* Each of its calls is issued at once and completes later, with success   *)
(* or with failure.  On failure the callback given to the call, if any,    *)
(* runs with the error, and the promise the call returned rejects, so the  *)
(* await of it throws.                                                     *)
(***************************************************************************)
EXTENDS Integers, Sequences, FiniteSets, TLC

VARIABLES
    onloadPc,    \* where onload() is: the operation it awaits, or how it ended
    state,       \* ObsidianGit.state
    lastUpdate,  \* ObsidianGit.lastUpdate, 0 when undefined
    intervalID,  \* ObsidianGit.intervalID, 0 when undefined
    settings,    \* ObsidianGit.settings (meaningful once loadData has resolved)
    saved,       \* the plugin's data file: << >> when absent, else <<settings>>
    timers,      \* the window's armed intervals: id -> [kind, period]
    nextId,      \* the id the next window.setInterval returns
    tasks,       \* the cycles in flight: timer callbacks and command callbacks
    events,      \* how many events from outside there have been
    bar,         \* the StatusBar object
    repo,        \* the working directory's repository
    now,         \* Date.now()
    ev           \* what the last step did: calls issued, messages, notices

vars == <<onloadPc, state, lastUpdate, intervalID, settings, saved, timers,
          nextId, tasks, events, bar, repo, now, ev>>

----------------------------------------------------------------------------
(* Bounds of the model *)

MaxEvents == 3    \* events from outside in one behaviour: timer ticks, commands,
                  \* settings inputs, file changes and advances of the clock
MaxFiles == 2     \* changed files in the working directory
MaxLen == 3       \* tokens in a commit message template given to the preview

----------------------------------------------------------------------------
(* Program constants *)

MsPerMinute == 60000      \* enableAutoBackup: minutes * 60000
MessageTimeout == 4000    \* displayMessage: timeout = 4 * 1000
RefreshPeriod == 1000     \* onload: setInterval(refreshStatusBar, 1000)

----------------------------------------------------------------------------
(* JavaScript numbers, as far as the interval setting needs them: a finite *)
(* decimal n/d with d a power of ten and no common factor ten, +-Infinity  *)
(* (n is the sign), or NaN.                                                *)

RECURSIVE Pow10(_)
Pow10(k) == IF k <= 0 THEN 1 ELSE 10 * Pow10(k - 1)

RECURSIVE Normalize(_, _)
Normalize(n, d) ==
    IF d > 1 /\ n % 10 = 0 THEN Normalize(n \div 10, d \div 10)
    ELSE [t |-> "fin", n |-> n, d |-> d]

Fin(n) == [t |-> "fin", n |-> n, d |-> 1]
Inf(sign) == [t |-> "inf", n |-> sign, d |-> 1]
NaN == [t |-> "nan", n |-> 0, d |-> 1]

\* isNaN with the test lost: every text is taken for a number
isNaN_Never(v) == FALSE
isNaN(v) == v.t = "nan"

\* v > 0
GreaterThanZero(v) == v.t # "nan" /\ v.n > 0

\* v <= 0 written as v < 0
AtMostZero_Strict(v) == v.t # "nan" /\ v.n < 0
\* v <= 0
AtMostZero(v) == v.t # "nan" /\ v.n <= 0

Times(v, k) == IF v.t = "fin" THEN Normalize(v.n * k, v.d) ELSE v

Digits == {"0", "1", "2", "3", "4", "5", "6", "7", "8", "9"}
DigitValue(c) == CASE c = "0" -> 0 [] c = "1" -> 1 [] c = "2" -> 2 [] c = "3" -> 3
                   [] c = "4" -> 4 [] c = "5" -> 5 [] c = "6" -> 6 [] c = "7" -> 7
                   [] c = "8" -> 8 [] c = "9" -> 9

AllDigits(s) == \A i \in 1..Len(s) : s[i] \in Digits

RECURSIVE DigitsValue(_)
DigitsValue(s) ==
    IF s = << >> THEN 0
    ELSE 10 * DigitsValue(SubSeq(s, 1, Len(s) - 1)) + DigitValue(s[Len(s)])

RECURSIVE Trim(_)
Trim(s) ==
    IF s = << >> THEN s
    ELSE IF Head(s) = " " THEN Trim(Tail(s))
    ELSE IF s[Len(s)] = " " THEN Trim(SubSeq(s, 1, Len(s) - 1))
    ELSE s

\* The first position of a character of cs in s, or Len(s) + 1.
FirstOf(s, cs) ==
    IF \E i \in 1..Len(s) : s[i] \in cs
    THEN CHOOSE i \in 1..Len(s) : s[i] \in cs /\ \A j \in 1..(i - 1) : s[j] \notin cs
    ELSE Len(s) + 1

InfinityChars == <<"I", "n", "f", "i", "n", "i", "t", "y">>

\* An unsigned decimal literal: digits, an optional fraction, an optional exponent.
UnsignedDecimal(s, sign) ==
    LET e == FirstOf(s, {"e", "E"})
        mant == SubSeq(s, 1, e - 1)
        hasExp == e <= Len(s)
        ex == SubSeq(s, e + 1, Len(s))
        exSign == IF ex # << >> /\ Head(ex) = "-" THEN -1 ELSE 1
        exDigits == IF ex # << >> /\ Head(ex) \in {"+", "-"} THEN Tail(ex) ELSE ex
        p == FirstOf(mant, {"."})
        ip == SubSeq(mant, 1, p - 1)
        fp == SubSeq(mant, p + 1, Len(mant))
        okMant == AllDigits(ip) /\ AllDigits(fp) /\ Len(ip) + Len(fp) >= 1
        okExp == ~hasExp \/ (exDigits # << >> /\ AllDigits(exDigits))
        scale == Len(fp) - (IF hasExp THEN exSign * DigitsValue(exDigits) ELSE 0)
        digits == DigitsValue(ip \o fp)
    IN  IF ~(okMant /\ okExp) THEN NaN
        ELSE IF scale <= 0 THEN Fin(sign * digits * Pow10(0 - scale))
        ELSE Normalize(sign * digits, Pow10(scale))

\* Number(value) of a string, given as its sequence of characters.
Number(value) ==
    LET s == Trim(value)
        sign == IF s # << >> /\ Head(s) = "-" THEN -1 ELSE 1
        rest == IF s # << >> /\ Head(s) \in {"+", "-"} THEN Tail(s) ELSE s
    IN  IF s = << >> THEN Fin(0)
        ELSE IF rest = InfinityChars THEN Inf(sign)
        ELSE UnsignedDecimal(rest, sign)

----------------------------------------------------------------------------
(* Strings that hold placeholders are sequences of tokens: a placeholder   *)
(* or a run of other text.  k is "text", "ph", "num" or "date"; at is the  *)
(* timestamp a rendered date shows.                                        *)

Text(v) == [k |-> "text", v |-> v, at |-> 0]
Placeholder(v) == [k |-> "ph", v |-> v, at |-> 0]

includes(template, ph) == \E i \in 1..Len(template) : template[i] = Placeholder(ph)

\* a replace that replaces every occurrence
replace_All(template, ph, token) ==
    [i \in 1..Len(template) |->
        IF template[i] = Placeholder(ph) THEN token ELSE template[i]]
\* String.prototype.replace with a string pattern: the first occurrence only.
replace(template, ph, token) ==
    IF includes(template, ph)
    THEN LET i == CHOOSE i \in 1..Len(template) :
                      /\ template[i] = Placeholder(ph)
                      /\ \A j \in 1..(i - 1) : template[j] # Placeholder(ph)
         IN  [template EXCEPT ![i] = token]
    ELSE template

\* moment().format(commitDateFormat) at time t
momentFormat(format, t) == [k |-> "date", v |-> format, at |-> t]

\* formatCommitMessage, given the result of its status query
formatCommitMessage(template, numFiles, format, t) ==
    LET t1 == IF includes(template, "numFiles")
              THEN replace(template, "numFiles",
                           [k |-> "num", v |-> ToString(numFiles), at |-> 0])
              ELSE template
    IN  replace(t1, "date", momentFormat(format, t))

----------------------------------------------------------------------------
(* Settings *)

DefaultTemplate == <<Text("vault backup: "), Placeholder("date")>>
CountTemplate == <<Placeholder("numFiles"), Text(" files, "), Placeholder("date")>>

\* new ObsidianGitSettings()
DefaultSettings ==
    [commitMessage |-> DefaultTemplate,
     commitDateFormat |-> "YYYY-MM-DD HH:mm:ss",
     autoSaveInterval |-> Fin(0),
     autoPullOnBoot |-> FALSE,
     autoPush |-> TRUE,
     disablePopups |-> FALSE,
     currentBranch |-> "undefined",
     remote |-> "undefined"]

\* The data files a start of the plugin may find: none, or settings saved earlier.
SavedData ==
    {<< >>,
     <<[DefaultSettings EXCEPT !.autoSaveInterval = Fin(5), !.autoPullOnBoot = TRUE,
                               !.currentBranch = "main", !.remote = "origin"]>>,
     <<[DefaultSettings EXCEPT !.autoSaveInterval = Fin(5), !.autoPush = FALSE,
                               !.disablePopups = TRUE, !.commitMessage = CountTemplate,
                               !.currentBranch = "main", !.remote = "origin"]>>}

----------------------------------------------------------------------------
(* Messages: k is the text, n the number it carries; lower tells that the  *)
(* text went through toLowerCase().                                        *)

Msg(k, n) == [k |-> k, n |-> n, lower |-> FALSE]
NoMsg == Msg("", 0)
toLowerCase(m) == [m EXCEPT !.lower = TRUE]

\* What the status bar element shows: a fixed text k, followed by a message
\* or by the time since a timestamp where the text has one.
BarText(k, m, at) == [k |-> k, m |-> m, at |-> at]

----------------------------------------------------------------------------
(* StatusBar *)

\* new StatusBar(statusBarEl).  until is no field of the class: it records the
\* time up to which the message displayed last was asked to stay (0 if it was
\* given no duration), and nothing reads it but the properties.
NewStatusBar ==
    [isDisplayingMessage |-> FALSE, text |-> BarText("", NoMsg, 0), timeouts |-> {},
     until |-> 0]

\* StatusBar.displayMessage at time t; timeouts holds the times at which a
\* pending window.setTimeout is due.
StatusBar_displayMessage(b, message, timeout, t) ==
    [isDisplayingMessage |-> TRUE,
     text |-> BarText("git: ", message, 0),
     timeouts |-> IF timeout > 0 THEN b.timeouts \cup {t + timeout} ELSE b.timeouts,
     until |-> IF timeout > 0 THEN t + timeout ELSE 0]

\* StatusBar.displayFromNow
StatusBar_displayFromNow(b, timestamp) ==
    IF timestamp # 0
    THEN [b EXCEPT !.text = BarText("git: last update ", NoMsg, timestamp)]
    ELSE [b EXCEPT !.text = BarText("git: ready", NoMsg, 0)]

\* StatusBar.displayState
StatusBar_displayState(b, st, timestamp) ==
    IF b.isDisplayingMessage THEN b
    ELSE CASE st = "idle" -> StatusBar_displayFromNow(b, timestamp)
           [] st = "status" -> [b EXCEPT !.text = BarText("git: checking repo status..", NoMsg, 0)]
           [] st = "add" -> [b EXCEPT !.text = BarText("git: adding files to repo..", NoMsg, 0)]
           [] st = "commit" -> [b EXCEPT !.text = BarText("git: committing changes..", NoMsg, 0)]
           [] st = "push" -> [b EXCEPT !.text = BarText("git: pushing changes..", NoMsg, 0)]
           [] st = "pull" -> [b EXCEPT !.text = BarText("git: pulling changes..", NoMsg, 0)]

----------------------------------------------------------------------------
(* The plugin's methods.  c is the part of the plugin a callback changes   *)
(* while it runs: state, lastUpdate, the status bar, and the notices and   *)
(* status-bar messages it has produced so far.                             *)

PluginStates == {"idle", "status", "pull", "add", "commit", "push"}

Current == [state |-> state, lastUpdate |-> lastUpdate, bar |-> bar,
            notices |-> << >>, shown |-> << >>]

\* new Notice(message)
Notice(c, message) == [c EXCEPT !.notices = Append(@, message)]

refreshStatusBar(c) ==
    [c EXCEPT !.bar = StatusBar_displayState(c.bar, c.state, c.lastUpdate)]

setState(c, st) == refreshStatusBar([c EXCEPT !.state = st])

displayMessage(c, s, message, timeout) ==
    LET c1 == [c EXCEPT !.bar = StatusBar_displayMessage(@, toLowerCase(message), timeout, now),
                        !.shown = Append(@, message)]
    IN  IF ~s.disablePopups THEN Notice(c1, message) ELSE c1

displayError(c, message, timeout) ==
    LET c1 == Notice(c, message)
    IN  [c1 EXCEPT !.bar = StatusBar_displayMessage(@, toLowerCase(message), timeout, now),
                   !.shown = Append(@, message)]

\* push() and pull(): this.lastUpdate = Date.now()
recordUpdate(c) == [c EXCEPT !.lastUpdate = now]

(* The window's intervals.  w is [timers, nextId, intervalID]. *)

Window == [timers |-> timers, nextId |-> nextId, intervalID |-> intervalID]

\* window.setInterval(callback, period): the new interval has id w.nextId
setInterval(w, kind, period) ==
    [w EXCEPT !.timers = @ \cup {[id |-> w.nextId, kind |-> kind, period |-> period]},
              !.nextId = @ + 1]

clearInterval(w, id) == [w EXCEPT !.timers = {t \in @ : t.id # id}]

\* enableAutoBackup with the minutes given to setInterval as they are
enableAutoBackup_Minutes(w, s) ==
    [setInterval(w, "backup", s.autoSaveInterval) EXCEPT !.intervalID = w.nextId]
enableAutoBackup(w, s) ==
    LET minutes == s.autoSaveInterval
    IN  [setInterval(w, "backup", Times(minutes, MsPerMinute))
            EXCEPT !.intervalID = w.nextId]

\* disableAutoBackup without its clearInterval
disableAutoBackup_NoClear(w) == w
disableAutoBackup(w) == IF w.intervalID # 0 THEN clearInterval(w, w.intervalID) ELSE w

\* the value disableAutoBackup returns
disableAutoBackupResult(w) == w.intervalID # 0

BackupTimers == {t \in timers : t.kind = "backup"}

----------------------------------------------------------------------------
(* What a step did.  fin describes the cycle that ended in the step.       *)

NoFin == [n |-> 0, origin |-> "none", files |-> -1, statuses |-> 0, adds |-> 0,
          commits |-> 0, pushes |-> 0, pulls |-> 0, outcome |-> "none", at |-> "none"]

\* notices: the Notice objects created; shown: the messages given to the status
\* bar; issued: the client call issued; started: the kind of cycle started;
\* saved: saveData was called; uncaught: a callback's promise rejected;
\* message: the message given to git.commit; input: <<the text typed into the
\* interval field>>; preview: <<the template given to formatCommitMessage by
\* the preview button and the text of the Notice made of its result>>.
NoEvent ==
    [notices |-> << >>, shown |-> << >>, issued |-> "none", started |-> "none",
     fin |-> NoFin, saved |-> FALSE, uncaught |-> FALSE, message |-> << >>,
     input |-> << >>, preview |-> << >>]

Apply(c, e) ==
    /\ state' = c.state
    /\ lastUpdate' = c.lastUpdate
    /\ bar' = c.bar
    /\ ev' = [e EXCEPT !.notices = c.notices, !.shown = c.shown]

ApplyWindow(w) ==
    /\ timers' = w.timers
    /\ nextId' = w.nextId
    /\ intervalID' = w.intervalID

----------------------------------------------------------------------------
(* The repository of the working directory: wt files changed and not       *)
(* staged, idx files staged.                                               *)

statusFiles(r) == r.wt + r.idx
gitAdd(r) == [r EXCEPT !.idx = r.idx + r.wt, !.wt = 0]
gitCommit(r) == [r EXCEPT !.idx = 0]

Results == {"ok", "fail"}

Init ==
    /\ onloadPc = "init"
    /\ state = "idle"
    /\ lastUpdate = 0
    /\ intervalID = 0
    /\ settings = DefaultSettings
    /\ saved \in SavedData
    /\ timers = {}
    /\ nextId = 1
    /\ tasks = {}
    /\ events = 0
    /\ bar = NewStatusBar
    /\ repo \in [isRepo : BOOLEAN, wt : {0}, idx : {0}]
    /\ now = MessageTimeout
    /\ ev = NoEvent

----------------------------------------------------------------------------
(* onload *)

\* git.checkIsRepo(CheckRepoActions.IS_REPO_ROOT), line 40, which is not
\* awaited: what it returns is the promise of the answer, not the answer
checkIsRepo(r) == [promise |-> TRUE, answer |-> r.isRepo]

\* JavaScript's !v: an object, and so a promise, is truthy
Not(v) == IF v.promise THEN FALSE ELSE ~v.answer

\* onload, lines 33-47: up to the await of loadData()
OnloadStart ==
    /\ onloadPc = "init"
    /\ LET c == setState([Current EXCEPT !.bar = NewStatusBar], "idle")
           isValidRepo == checkIsRepo(repo)
       IN  IF Not(isValidRepo)
           THEN /\ onloadPc' = "aborted"
                /\ Apply(displayMessage(c, settings,
                                        Msg("Valid git repository not found.", 0), 0),
                         NoEvent)
           ELSE /\ onloadPc' = "loadData"
                /\ Apply(c, NoEvent)
    /\ UNCHANGED <<intervalID, settings, saved, timers, nextId, tasks, events,
                   repo, now>>

\* onload, lines 47-50: loadData() has resolved; git.branch() is issued
OnloadLoaded ==
    /\ onloadPc = "loadData"
    /\ onloadPc' = "branch"
    /\ settings' = IF saved = << >> THEN DefaultSettings ELSE saved[1]
    /\ ev' = [NoEvent EXCEPT !.issued = "branch"]
    /\ UNCHANGED <<state, lastUpdate, intervalID, saved, timers, nextId, tasks, events, bar, repo, now>>

\* onload, lines 50-53: git.branch() has completed; git.remote([]) is issued
OnloadBranch ==
    /\ onloadPc = "branch"
    /\ \E r \in Results :
        /\ r = "ok" => repo.isRepo
        /\ IF r = "ok"
           THEN /\ onloadPc' = "remote"
                /\ settings' = [settings EXCEPT !.currentBranch = "main"]
                /\ ev' = [NoEvent EXCEPT !.issued = "remote"]
           ELSE /\ onloadPc' = "rejected"
                /\ settings' = settings
                /\ ev' = [NoEvent EXCEPT !.uncaught = TRUE]
    /\ UNCHANGED <<state, lastUpdate, intervalID, saved, timers, nextId, tasks, events, bar, repo, now>>

\* onload, lines 72-101: the backup timer, the refresh timer, the settings tab
\* and the commands
FinishOnload(w, s) ==
    LET w1 == IF GreaterThanZero(s.autoSaveInterval) THEN enableAutoBackup(w, s) ELSE w
    IN  setInterval(w1, "refresh", Fin(RefreshPeriod))

\* onload with the pull on boot issued and not awaited: the timers, the
\* settings tab and the commands are set up while the pull is in flight
OnloadRemote_PullNotAwaited ==
    /\ onloadPc = "remote"
    /\ settings' = [settings EXCEPT !.remote = "origin"]
    /\ onloadPc' = IF settings.autoPullOnBoot THEN "pull" ELSE "ready"
    /\ Apply(IF settings.autoPullOnBoot THEN setState(Current, "pull") ELSE Current,
             [NoEvent EXCEPT !.issued = IF settings.autoPullOnBoot THEN "pull" ELSE "none"])
    /\ ApplyWindow(FinishOnload(Window, settings))
    /\ UNCHANGED <<saved, tasks, events, repo, now>>
\* onload, lines 53-62 (and 72-101 without a pull on boot): git.remote([]) has
\* completed, with a string, with something else, or with a failure
OnloadRemote ==
    /\ onloadPc = "remote"
    /\ \E r \in {"string", "other", "fail"} :
        CASE r = "fail" ->
                /\ onloadPc' = "rejected"
                /\ ev' = [NoEvent EXCEPT !.uncaught = TRUE]
                /\ UNCHANGED <<state, lastUpdate, bar, settings, timers, nextId, intervalID>>
          [] r = "other" ->
                /\ onloadPc' = "aborted"
                /\ Apply(displayMessage(Current, settings, Msg("Failed to detect remote.", 0), 0),
                         NoEvent)
                /\ UNCHANGED <<settings, timers, nextId, intervalID>>
          [] r = "string" ->
                /\ settings' = [settings EXCEPT !.remote = "origin"]
                /\ IF settings.autoPullOnBoot
                   THEN /\ onloadPc' = "pull"
                        /\ Apply(setState(Current, "pull"),
                                 [NoEvent EXCEPT !.issued = "pull"])
                        /\ UNCHANGED <<timers, nextId, intervalID>>
                   ELSE /\ onloadPc' = "ready"
                        /\ ApplyWindow(FinishOnload(Window, settings))
                        /\ UNCHANGED <<state, lastUpdate, bar>>
                        /\ ev' = NoEvent
    /\ UNCHANGED <<saved, tasks, events, repo, now>>

\* pull(), lines 181-190, after git.pull has completed with `files` files updated
pullDone(c) == recordUpdate(c)

\* a failure of git.pull: the callback of lines 185-186
pullFailed(c) == displayError(c, Msg("Pull failed", 0), 0)

\* onload, lines 62-101: the pull on boot has completed
OnloadPull ==
    /\ onloadPc = "pull"
    /\ \E r \in Results, filesUpdated \in 0..1 :
        IF r = "ok"
        THEN LET c1 == setState(pullDone(Current), "idle")
                 message == IF filesUpdated > 0
                            THEN Msg("Pulled new changes. files updated", filesUpdated)
                            ELSE Msg("Everything up-to-date", 0)
             IN  /\ onloadPc' = "ready"
                 /\ Apply(displayMessage(c1, settings, message, MessageTimeout),
                          NoEvent)
                 /\ ApplyWindow(FinishOnload(Window, settings))
        ELSE /\ filesUpdated = 0
             /\ onloadPc' = "rejected"
             /\ Apply(pullFailed(Current), [NoEvent EXCEPT !.uncaught = TRUE])
             /\ UNCHANGED <<timers, nextId, intervalID>>
    /\ UNCHANGED <<settings, saved, tasks, events, repo, now>>

\* onunload, with the host clearing the intervals given to registerInterval
Unload ==
    /\ onloadPc = "ready"
    /\ onloadPc' = "unloaded"
    /\ saved' = <<settings>>
    /\ timers' = {}
    /\ ev' = [NoEvent EXCEPT !.saved = TRUE]
    /\ UNCHANGED <<state, lastUpdate, intervalID, settings, nextId, tasks, events,
                   bar, repo, now>>

----------------------------------------------------------------------------
(* Cycles.  A task is one run of the timer callback (createBackup), of the *)
(* "push" command callback or of the "pull" command callback               *)
(* (pullChangesFromRemote).  pc names the call the task is awaiting:       *)
(*   "cmdStatus"  git.status() of the command's own getFilesChanged()      *)
(*   "status"     git.status() of createBackup's getFilesChanged()         *)
(*   "add", "commit", "push", "pull"   the call of that method             *)
(*   "fmtStatus"  git.status() of formatCommitMessage                      *)
(* files is files.length in createBackup (-1 until its status query has    *)
(* completed), template the argument of formatCommitMessage; the counters  *)
(* count the calls the task has issued.                                    *)

NewTask(n, origin) ==
    [n |-> n, origin |-> origin, pc |-> "none", files |-> -1, template |-> << >>,
     statuses |-> 0, adds |-> 0, commits |-> 0, pushes |-> 0, pulls |-> 0]

Finished(t, outcome) ==
    [n |-> t.n, origin |-> t.origin, files |-> t.files, statuses |-> t.statuses,
     adds |-> t.adds, commits |-> t.commits, pushes |-> t.pushes, pulls |-> t.pulls,
     outcome |-> outcome, at |-> t.pc]

CommandsRegistered == onloadPc = "ready"

\* The task goes on: it has issued `op` and awaits it.
Continue(t, t1, c, op, message) ==
    /\ tasks' = (tasks \ {t}) \cup {t1}
    /\ Apply(c, [NoEvent EXCEPT !.issued = op, !.message = message])

\* The task's callback returns.
Return(t, c) ==
    /\ tasks' = tasks \ {t}
    /\ Apply(c, [NoEvent EXCEPT !.fin = Finished(t, "returned")])

\* The call the task awaited has failed, the await throws, and nothing in the
\* callback catches: the promise the callback returned rejects.
Reject(t, c) ==
    /\ tasks' = tasks \ {t}
    /\ Apply(c, [NoEvent EXCEPT !.fin = Finished(t, "rejected"),
                                        !.uncaught = TRUE])

\* getFilesChanged, lines 143-144: up to the await of git.status()
getFilesChanged(c) == setState(c, "status")

\* The timer callback of enableAutoBackup: createBackup() up to its first await
TimerTick ==
    /\ events < MaxEvents
    /\ \E tm \in BackupTimers :
        LET t == NewTask(events + 1, "timer")
        IN  /\ tasks' = tasks \cup {[t EXCEPT !.pc = "status", !.statuses = 1]}
            /\ Apply(getFilesChanged(Current),
                     [NoEvent EXCEPT !.issued = "status",
                                            !.started = "timer"])
    /\ events' = events + 1
    /\ UNCHANGED <<onloadPc, intervalID, settings, saved, timers, nextId, repo, now>>

\* The callback of the command "push" up to its first await
CommandPush ==
    /\ CommandsRegistered
    /\ events < MaxEvents
    /\ LET t == NewTask(events + 1, "cmdPush")
       IN  /\ tasks' = tasks \cup {[t EXCEPT !.pc = "cmdStatus", !.statuses = 1]}
           /\ Apply(getFilesChanged(Current),
                    [NoEvent EXCEPT !.issued = "status",
                                              !.started = "cmdPush"])
    /\ events' = events + 1
    /\ UNCHANGED <<onloadPc, intervalID, settings, saved, timers, nextId, repo, now>>

\* The callback of the command "pull": pullChangesFromRemote() up to its await
CommandPull ==
    /\ CommandsRegistered
    /\ events < MaxEvents
    /\ LET t == NewTask(events + 1, "cmdPull")
       IN  /\ tasks' = tasks \cup {[t EXCEPT !.pc = "pull", !.pulls = 1]}
           /\ Apply(setState(Current, "pull"),
                    [NoEvent EXCEPT !.issued = "pull",
                                              !.started = "cmdPull"])
    /\ events' = events + 1
    /\ UNCHANGED <<onloadPc, intervalID, settings, saved, timers, nextId, repo, now>>

\* The command "push", lines 92-100: its status query has completed
CommandStatusDone ==
    /\ \E t \in tasks, r \in Results :
        /\ t.pc = "cmdStatus"
        /\ IF r = "fail" THEN Reject(t, Current)
           ELSE IF statusFiles(repo) = 0
           THEN Return(t, displayMessage(Current, settings, Msg("No changes detected", 0),
                                         MessageTimeout))
           ELSE Continue(t, [t EXCEPT !.pc = "status", !.statuses = @ + 1],
                         getFilesChanged(Current), "status", << >>)
    /\ UNCHANGED <<onloadPc, intervalID, settings, saved, timers, nextId, events,
                   repo, now>>

\* add(), lines 149-150: up to the await of git.add
add(c) == setState(c, "add")

\* the test of line 120 lost: an empty ChangeSet goes on to add
noChanges_Never(files) == files < 0
\* createBackup, line 120: files.length === 0
noChanges(files) == files = 0

\* createBackup, lines 119-124 and 134: its status query has completed
BackupStatusDone ==
    /\ \E t \in tasks, r \in Results :
        /\ t.pc = "status"
        /\ IF r = "fail" THEN Reject(t, Current)
           ELSE LET t1 == [t EXCEPT !.files = statusFiles(repo)]
                IN  IF noChanges(t1.files)
                    THEN /\ tasks' = tasks \ {t}
                         /\ Apply(setState(Current, "idle"),
                                  [NoEvent EXCEPT !.fin = Finished(t1, "returned")])
                    ELSE Continue(t, [t1 EXCEPT !.pc = "add", !.adds = @ + 1],
                                  add(Current), "add", << >>)
    /\ UNCHANGED <<onloadPc, intervalID, settings, saved, timers, nextId, events,
                   repo, now>>

\* commit(), lines 158-162, and formatCommitMessage, lines 233-234: what the
\* task awaits next, the status query of {{numFiles}} or git.commit
commitAwaits(s) == IF includes(s.commitMessage, "numFiles") THEN "fmtStatus" ELSE "commit"

\* the failure of git.add: the callback of lines 152-153
addFailed(c) == displayError(c, Msg("Cannot add files", 0), 0)

\* a failed add whose error the callback consumes: the await returns
addThrows_Never(r) == FALSE
\* add(), line 150: the await of git.add throws if the call has failed, the
\* callback being run as well
addThrows(r) == r = "fail"

\* createBackup, lines 124-125: git.add has completed; commit() begins
AddDone ==
    /\ \E t \in tasks, r \in Results :
        /\ t.pc = "add"
        /\ LET c == IF r = "fail" THEN addFailed(Current) ELSE Current
           IN  IF addThrows(r)
               THEN /\ Reject(t, c)
                    /\ repo' = repo
               ELSE /\ repo' = IF r = "ok" THEN gitAdd(repo) ELSE repo
                    /\ IF commitAwaits(settings) = "fmtStatus"
                       THEN Continue(t, [t EXCEPT !.pc = "fmtStatus", !.statuses = @ + 1,
                                                  !.template = settings.commitMessage],
                                     setState(c, "commit"), "status", << >>)
                       ELSE Continue(t, [t EXCEPT !.pc = "commit", !.commits = @ + 1],
                                     setState(c, "commit"), "commit",
                                     formatCommitMessage(settings.commitMessage, 0,
                                                         settings.commitDateFormat, now))
    /\ UNCHANGED <<onloadPc, intervalID, settings, saved, timers, nextId, events, now>>

\* formatCommitMessage, lines 234-243, and commit(), line 162: the status query
\* of {{numFiles}} has completed; git.commit is issued.  commit() was given the
\* template before the query; the date format is read after it.
FormatStatusDone ==
    /\ \E t \in tasks, r \in Results :
        /\ t.pc = "fmtStatus"
        /\ IF r = "fail" THEN Reject(t, Current)
           ELSE Continue(t, [t EXCEPT !.pc = "commit", !.commits = @ + 1], Current, "commit",
                         formatCommitMessage(t.template, statusFiles(repo),
                                             settings.commitDateFormat, now))
    /\ UNCHANGED <<onloadPc, intervalID, settings, saved, timers, nextId, events,
                   repo, now>>

\* push(), lines 166-167: up to the await of git.push
push(c) == setState(c, "push")

\* the test of line 128 lost: push whatever the setting
shouldPush_Always(s) == TRUE
\* createBackup, line 128: this.settings.autoPush
shouldPush(s) == s.autoPush

\* createBackup, lines 126-134: git.commit has completed
CommitDone ==
    /\ \E t \in tasks, r \in Results :
        /\ t.pc = "commit"
        /\ IF r = "fail"
           THEN /\ Reject(t, Current)
                /\ repo' = repo
           ELSE LET c1 == displayMessage(Current, settings, Msg("Committed files", t.files),
                                         MessageTimeout)
                IN  /\ repo' = gitCommit(repo)
                    /\ IF shouldPush(settings)
                       THEN Continue(t, [t EXCEPT !.pc = "push", !.pushes = @ + 1],
                                     push(c1), "push", << >>)
                       ELSE Return(t, setState(c1, "idle"))
    /\ UNCHANGED <<onloadPc, intervalID, settings, saved, timers, nextId, events, now>>

\* push(), line 176, after git.push has completed
pushDone(c) == recordUpdate(c)

\* a push that records the time of the update although it failed
pushFailed_Records(c) == recordUpdate(displayError(c, Msg("Push failed", 0), 0))
\* the failure of git.push: the callback of lines 171-173
pushFailed(c) == displayError(c, Msg("Push failed", 0), 0)

\* createBackup, lines 129-134: git.push has completed
PushDone ==
    /\ \E t \in tasks, r \in Results :
        /\ t.pc = "push"
        /\ IF r = "fail" THEN Reject(t, pushFailed(Current))
           ELSE Return(t, setState(displayMessage(pushDone(Current), settings,
                                                  Msg("Pushed files to remote", t.files),
                                                  MessageTimeout),
                                   "idle"))
    /\ UNCHANGED <<onloadPc, intervalID, settings, saved, timers, nextId, events,
                   repo, now>>

\* pullChangesFromRemote, lines 105-115: git.pull has completed
PullDone ==
    /\ \E t \in tasks, r \in Results, filesUpdated \in 0..1 :
        /\ t.pc = "pull"
        /\ IF r = "fail"
           THEN /\ filesUpdated = 0
                /\ Reject(t, pullFailed(Current))
           ELSE LET message == IF filesUpdated > 0
                               THEN Msg("Pulled new changes. files updated", filesUpdated)
                               ELSE Msg("Everything is up-to-date", 0)
                IN  Return(t, setState(displayMessage(pullDone(Current), settings, message,
                                                      MessageTimeout),
                                       "idle"))
    /\ UNCHANGED <<onloadPc, intervalID, settings, saved, timers, nextId, events,
                   repo, now>>

----------------------------------------------------------------------------
(* The settings tab *)

SettingsTabAdded == onloadPc = "ready"

\* The texts typed into the interval field, as sequences of characters
IntervalInputs ==
    {<<"5">>, <<"1", "0">>, <<"0">>, <<"-", "1">>, <<"1", ".", "5">>, << >>,
     <<"a", "b", "c">>, <<"1", "e", "3">>, InfinityChars}

\* plugin.saveData(plugin.settings)
saveData(s) == <<s>>

\* The interval field's onChange, lines 276-297
IntervalChange ==
    /\ SettingsTabAdded
    /\ events < MaxEvents
    /\ events' = events + 1
    /\ \E value \in IntervalInputs :
        IF ~isNaN(Number(value))
        THEN LET s1 == [settings EXCEPT !.autoSaveInterval = Number(value)]
             IN  /\ settings' = s1
                 /\ saved' = saveData(s1)
                 /\ IF GreaterThanZero(s1.autoSaveInterval)
                    THEN /\ ApplyWindow(enableAutoBackup(disableAutoBackup(Window), s1))
                         /\ Apply(Notice(Current, Msg("Automatic backup enabled! Every minutes.", 0)),
                                  [NoEvent EXCEPT !.saved = TRUE, !.input = <<value>>])
                    ELSE IF AtMostZero(s1.autoSaveInterval) /\ intervalID # 0
                    THEN /\ ApplyWindow(disableAutoBackup(Window))
                         /\ Apply(IF disableAutoBackupResult(Window)
                                  THEN Notice(Current, Msg("Automatic backup disabled!", 0))
                                  ELSE Current,
                                  [NoEvent EXCEPT !.saved = TRUE, !.input = <<value>>])
                    ELSE /\ ApplyWindow(Window)
                         /\ Apply(Current, [NoEvent EXCEPT !.saved = TRUE, !.input = <<value>>])
        ELSE /\ Apply(Notice(Current, Msg("Please specify a valid number.", 0)),
                      [NoEvent EXCEPT !.input = <<value>>])
             /\ UNCHANGED <<settings, saved, timers, nextId, intervalID>>
    /\ UNCHANGED <<onloadPc, tasks, repo, now>>

\* The commit message field's onChange, lines 314-317
CommitMessageChange ==
    /\ SettingsTabAdded
    /\ events < MaxEvents
    /\ events' = events + 1
    /\ \E value \in {DefaultTemplate, CountTemplate} :
        LET s1 == [settings EXCEPT !.commitMessage = value]
        IN  settings' = s1 /\ saved' = saveData(s1)
    /\ ev' = [NoEvent EXCEPT !.saved = TRUE]
    /\ UNCHANGED <<onloadPc, state, lastUpdate, intervalID, timers, nextId, tasks,
                   bar, repo, now>>

\* The "Push changes" toggle's onChange, lines 389-392
AutoPushChange ==
    /\ SettingsTabAdded
    /\ events < MaxEvents
    /\ events' = events + 1
    /\ LET s1 == [settings EXCEPT !.autoPush = ~@]
       IN  settings' = s1 /\ saved' = saveData(s1)
    /\ ev' = [NoEvent EXCEPT !.saved = TRUE]
    /\ UNCHANGED <<onloadPc, state, lastUpdate, intervalID, timers, nextId, tasks,
                   bar, repo, now>>

\* The "Disable notifications" toggle's onChange, lines 403-406
DisablePopupsChange ==
    /\ SettingsTabAdded
    /\ events < MaxEvents
    /\ events' = events + 1
    /\ LET s1 == [settings EXCEPT !.disablePopups = ~@]
       IN  settings' = s1 /\ saved' = saveData(s1)
    /\ ev' = [NoEvent EXCEPT !.saved = TRUE]
    /\ UNCHANGED <<onloadPc, state, lastUpdate, intervalID, timers, nextId, tasks,
                   bar, repo, now>>

----------------------------------------------------------------------------
(* The window's timers, the clock and the working directory *)

\* The callback of the refresh interval, line 77
Refresh ==
    /\ \E tm \in timers : tm.kind = "refresh"
    /\ Apply(refreshStatusBar(Current), NoEvent)
    /\ UNCHANGED <<onloadPc, intervalID, settings, saved, timers, nextId, tasks, events, repo, now>>

\* The callback of a timeout of StatusBar.displayMessage, lines 424-426, which
\* runs once its time has come
MessageTimeoutFires ==
    /\ \E due \in bar.timeouts :
        /\ due <= now
        /\ bar' = [bar EXCEPT !.isDisplayingMessage = FALSE, !.timeouts = @ \ {due}]
    /\ ev' = NoEvent
    /\ UNCHANGED <<onloadPc, state, lastUpdate, intervalID, settings, saved, timers, nextId,
                   tasks, events, repo, now>>

\* Time passes.
Tick ==
    /\ events < MaxEvents
    /\ events' = events + 1
    /\ now' = now + MessageTimeout
    /\ ev' = NoEvent
    /\ UNCHANGED <<onloadPc, state, lastUpdate, intervalID, settings, saved, timers, nextId,
                   tasks, bar, repo>>

\* The user changes a file of the working directory.
EditFile ==
    /\ events < MaxEvents
    /\ events' = events + 1
    /\ statusFiles(repo) < MaxFiles
    /\ repo' = [repo EXCEPT !.wt = @ + 1]
    /\ ev' = NoEvent
    /\ UNCHANGED <<onloadPc, state, lastUpdate, intervalID, settings, saved, timers, nextId,
                   tasks, bar, now>>

----------------------------------------------------------------------------
(* The preview button of the settings tab, lines 336-341.  It is checked   *)
(* in a specification of its own, which starts from the activated plugin   *)
(* with any template typed into the commit message field.                  *)

Tokens == {Text("a"), Placeholder("date"), Placeholder("numFiles"), Placeholder("title")}

Templates == UNION {[1..n -> Tokens] : n \in 0..MaxLen}

\* new Notice(`${commitMessagePreview}`)
PreviewNotice(template, rendered) ==
    [NoEvent EXCEPT !.preview = <<[template |-> template, rendered |-> rendered]>>]

\* The button's onClick up to its first await: the status query of
\* formatCommitMessage (line 234) if the template has {{numFiles}}, none
\* otherwise
PreviewClick ==
    /\ SettingsTabAdded
    /\ events < MaxEvents
    /\ events' = events + 1
    /\ LET template == settings.commitMessage
       IN  IF includes(template, "numFiles")
           THEN LET t == NewTask(events + 1, "preview")
                IN  /\ tasks' = tasks \cup {[t EXCEPT !.pc = "previewStatus", !.statuses = 1,
                                                      !.template = template]}
                    /\ ev' = [NoEvent EXCEPT !.issued = "status"]
           ELSE /\ tasks' = tasks
                /\ ev' = PreviewNotice(template,
                                       formatCommitMessage(template, 0,
                                                           settings.commitDateFormat, now))
    /\ UNCHANGED <<onloadPc, state, lastUpdate, intervalID, settings, saved, timers,
                   nextId, bar, repo, now>>

\* formatCommitMessage, lines 234-243, and the onClick, line 340: the status
\* query has completed
PreviewStatusDone ==
    /\ \E t \in tasks, r \in Results :
        /\ t.pc = "previewStatus"
        /\ tasks' = tasks \ {t}
        /\ IF r = "fail"
           THEN ev' = [NoEvent EXCEPT !.fin = Finished(t, "rejected"), !.uncaught = TRUE]
           ELSE ev' = PreviewNotice(t.template,
                                    formatCommitMessage(t.template, statusFiles(repo),
                                                        settings.commitDateFormat, now))
    /\ UNCHANGED <<onloadPc, state, lastUpdate, intervalID, settings, saved, timers,
                   nextId, events, bar, repo, now>>

InitFormat ==
    /\ onloadPc = "ready"
    /\ state = "idle"
    /\ lastUpdate = 0
    /\ intervalID = 0
    /\ settings \in {[DefaultSettings EXCEPT !.commitMessage = t, !.currentBranch = "main",
                                             !.remote = "origin"] : t \in Templates}
    /\ saved = saveData(settings)
    /\ timers = {[id |-> 1, kind |-> "refresh", period |-> Fin(RefreshPeriod)]}
    /\ nextId = 2
    /\ tasks = {}
    /\ events = 0
    /\ bar = StatusBar_displayState(NewStatusBar, "idle", 0)
    /\ repo = [isRepo |-> TRUE, wt |-> 0, idx |-> 0]
    /\ now = MessageTimeout
    /\ ev = NoEvent

NextFormat ==
    \/ PreviewClick
    \/ PreviewStatusDone
    \/ EditFile
    \/ Tick

SpecFormat == InitFormat /\ [][NextFormat]_vars

----------------------------------------------------------------------------

Next ==
    \/ OnloadStart
    \/ OnloadLoaded
    \/ OnloadBranch
    \/ OnloadRemote
    \/ OnloadPull
    \/ Unload
    \/ TimerTick
    \/ CommandPush
    \/ CommandPull
    \/ CommandStatusDone
    \/ BackupStatusDone
    \/ AddDone
    \/ FormatStatusDone
    \/ CommitDone
    \/ PushDone
    \/ PullDone
    \/ IntervalChange
    \/ CommitMessageChange
    \/ AutoPushChange
    \/ DisablePopupsChange
    \/ Refresh
    \/ MessageTimeoutFires
    \/ Tick
    \/ EditFile

Spec == Init /\ [][Next]_vars

----------------------------------------------------------------------------
(* Properties *)

IsFiniteInteger(v) == v.t = "fin" /\ v.d = 1

\* The configured interval disables the timer.
IntervalDisabled ==
    settings.autoSaveInterval.t # "nan" /\ settings.autoSaveInterval.n <= 0

\* A text with a character that no number has.
NonNumericText(s) ==
    /\ s # InfinityChars
    /\ \E i \in 1..Len(s) : s[i] \notin Digits \cup {"+", "-", ".", "e", "E", " "}

\* The step has ended a run of createBackup, of either origin.
BackupEnded == ev.fin.n # 0 /\ ev.fin.files >= 0

\* C1: no two cycles overlap: at most one cycle (a run of the timer callback or
\* of a command callback) is in flight at any time.
C1_NoOverlappingCycles == Cardinality(tasks) <= 1

\* C2: when a cycle ends with the failure of a client operation and no other
\* cycle is in flight, CycleState is Idle.
C2_IdleAfterFailure ==
    (ev.fin.outcome = "rejected" /\ tasks = {}) => state = "idle"

\* C3: a run of createBackup whose ChangeSet is empty issues no add, commit or
\* push, shows no message and no notice, and ends with CycleState Idle and the
\* indicator, unless a message holds it, on "ready" or the last update.
C3_EmptyChangeSet ==
    (BackupEnded /\ ev.fin.files = 0) =>
        /\ ev.fin.outcome = "returned"
        /\ ev.fin.adds = 0 /\ ev.fin.commits = 0 /\ ev.fin.pushes = 0
        /\ ev.shown = << >> /\ ev.notices = << >>
        /\ state = "idle"
        /\ ~bar.isDisplayingMessage => bar.text.k \in {"git: ready", "git: last update "}

C3_Witness ==
    BackupEnded /\ ev.fin.files = 0 /\ ev.fin.origin = "timer" /\ lastUpdate # 0

\* C4: a run of createBackup with a non-empty ChangeSet and no failure has
\* issued add once and commit once, and push once if auto-push was enabled when
\* the commit completed and not at all otherwise; push is issued only with
\* auto-push enabled.
C4_AddCommitPushOnce ==
    /\ (BackupEnded /\ ev.fin.files > 0 /\ ev.fin.outcome = "returned") =>
          /\ ev.fin.adds = 1
          /\ ev.fin.commits = 1
          /\ IF ev.fin.at = "push" THEN ev.fin.pushes = 1
             ELSE ev.fin.pushes = 0 /\ ~settings.autoPush
    /\ ev.issued = "push" => settings.autoPush

C4_Witness ==
    /\ BackupEnded /\ ev.fin.files > 0 /\ ev.fin.outcome = "returned"
    /\ ev.fin.origin = "cmdPush" /\ ev.fin.pushes = 1

\* C5: when the command "push" has found no changes and ends, with no other
\* cycle in flight, CycleState is Idle and nothing was added, committed or pushed.
C5_NoChangesCommandEndsIdle ==
    (/\ ev.fin.origin = "cmdPush" /\ ev.fin.at = "cmdStatus"
     /\ ev.fin.outcome = "returned" /\ tasks = {}) =>
        /\ state = "idle"
        /\ ev.fin.adds = 0 /\ ev.fin.commits = 0 /\ ev.fin.pushes = 0

\* C6: at most one backup timer is armed at any time.
C6_AtMostOneBackupTimer == Cardinality(BackupTimers) <= 1

C6_Witness ==
    /\ Cardinality(BackupTimers) = 1
    /\ \E t \in BackupTimers : t.id >= 3 /\ t.id = intervalID

\* C7: while the configured interval is zero or less, no backup timer is armed
\* and no step starts a cycle from the timer.
C7_NoTimerWhenDisabled ==
    IntervalDisabled => (BackupTimers = {} /\ ev.started # "timer")

C7_Witness ==
    IntervalDisabled /\ intervalID # 0 /\ ev.started \in {"cmdPush", "cmdPull"}

\* C8: a non-numeric text typed into the interval field changes neither the
\* settings nor the data file nor the timers, and saves nothing.
C8_NonNumericRejected ==
    [][(ev'.input # << >> /\ NonNumericText(ev'.input[1])) =>
          /\ UNCHANGED <<settings, saved, timers, nextId, intervalID>>
          /\ ~ev'.saved]_vars

C8_Witness ==
    ev.input # << >> /\ NonNumericText(ev.input[1]) /\ BackupTimers # {}

\* C9: the configured interval is a finite integer in every state.
C9_IntervalFiniteInteger == IsFiniteInteger(settings.autoSaveInterval)

\* C10: lastUpdate changes only in a step in which a push or a pull has
\* succeeded, and then to the time of that step.
SyncSucceeded == ev.fin.outcome = "returned" /\ ev.fin.at \in {"push", "pull"}

C10_LastUpdateOnlyOnSync ==
    [][lastUpdate' # lastUpdate =>
          /\ lastUpdate' = now
          /\ SyncSucceeded' \/ (onloadPc = "pull" /\ onloadPc' = "ready")]_vars

C10_Witness ==
    /\ ev.fin.outcome = "rejected" /\ ev.fin.at = "push"
    /\ lastUpdate # 0 /\ lastUpdate < now

\* C11: no run of the timer callback or of a command callback ends with its
\* promise rejected: every failure of a client call is caught where the call
\* was issued.
C11_NoUncaughtRejection == ev.fin.n # 0 => ~ev.uncaught

\* C12: until the duration of the message displayed last has elapsed, the
\* indicator is suppressed and shows a message.
C12_MessageHeldForDuration ==
    now < bar.until => (bar.isDisplayingMessage /\ bar.text.k = "git: ")

\* C15: in a working directory that is not a repository no git operation is
\* issued by any step, and an activation aborted for a setup error has armed
\* no timer, registered no command and settings tab, and started no cycle.
C15_SetupErrorIsFatal ==
    /\ ~repo.isRepo => ev.issued = "none"
    /\ onloadPc = "aborted" =>
          /\ timers = {} /\ tasks = {} /\ ev.issued = "none"
          /\ ~CommandsRegistered /\ ~SettingsTabAdded

\* C13: the indicator of the activated plugin is never suppressed with nothing
\* left to lift the suppression: while a message holds the indicator, a
\* timeout is pending that will let the phase display resume.
C13_SuppressionEnds ==
    (onloadPc = "ready" /\ bar.isDisplayingMessage) => bar.timeouts # {}

\* C14: a step that reports the outcome of a git operation creates no notice
\* while notifications are disabled, and one notice for every message it
\* gives to the indicator while they are enabled.
C14_PopupsFollowSetting ==
    ev.input = << >> =>
        IF settings.disablePopups THEN ev.notices = << >>
        ELSE ev.notices = ev.shown

\* The indicator's text for a phase.
PhaseText(st) ==
    CASE st = "add" -> "git: adding files to repo.."
      [] st = "commit" -> "git: committing changes.."
      [] st = "push" -> "git: pushing changes.."
      [] st = "pull" -> "git: pulling changes.."

\* C16: in a step that issues add, commit, push or pull, CycleState is the
\* phase of that operation and the indicator, unless a message holds it,
\* shows that phase.
C16_StateAtIssue ==
    ev.issued \in {"add", "commit", "push", "pull"} =>
        /\ state = ev.issued
        /\ ~bar.isDisplayingMessage => bar.text.k = PhaseText(ev.issued)

\* The step has reported the failure of git.add.
AddFailureShown == \E i \in 1..Len(ev.shown) : ev.shown[i].k = "Cannot add files"

\* The step has displayed a success message of commit or push.
SuccessShown ==
    \E i \in 1..Len(ev.shown) : ev.shown[i].k \in {"Committed files", "Pushed files to remote"}

\* C17: the step in which git.add fails ends the cycle, which has issued no
\* commit and no push, and displays no success message; commit is issued only
\* by a cycle whose add has succeeded and push only in the step in which the
\* cycle's commit has succeeded.
C17_FailedAddFailsCycle ==
    /\ AddFailureShown =>
          /\ ev.fin.outcome = "rejected" /\ ev.fin.at = "add"
          /\ ev.fin.commits = 0 /\ ev.fin.pushes = 0
          /\ ev.issued = "none"
          /\ ~SuccessShown
    /\ ev.issued = "push" => \E i \in 1..Len(ev.shown) : ev.shown[i].k = "Committed files"
    /\ \A t \in tasks :
          /\ t.commits > 0 => (t.adds = 1 /\ t.pc \in {"commit", "push"})
          /\ t.pushes > 0 => (t.commits = 1 /\ t.pc = "push")

C17_Witness ==
    /\ AddFailureShown /\ ev.fin.origin = "timer" /\ ev.fin.files > 0
    /\ repo.wt > 0 /\ repo.idx = 0

\* C18: the period of every armed backup timer is the configured interval
\* times 60000 ms.
C18_PeriodIsCurrentInterval ==
    \A t \in BackupTimers : t.period = Times(settings.autoSaveInterval, MsPerMinute)

C18_Witness ==
    \E t \in BackupTimers :
        /\ t.id >= 3 /\ t.id = intervalID
        /\ settings.autoSaveInterval = Fin(10)
        /\ t.period = Fin(600000)

\* Position i holds the first occurrence of the placeholder ph in template t.
FirstOccurrence(t, i, ph) ==
    /\ t[i] = Placeholder(ph)
    /\ \A j \in 1..(i - 1) : t[j] # Placeholder(ph)

\* C19: the text the preview shows is the template with the first {{numFiles}}
\* replaced by the decimal count of changed files when the status query
\* completed and the first {{date}} by the formatted time of that moment;
\* every other token is the template's, in its position; a template without
\* placeholder is rendered as itself, and rendering the result again changes
\* nothing.
C19_FirstOccurrenceOnly ==
    ev.preview # << >> =>
        LET t == ev.preview[1].template
            r == ev.preview[1].rendered
        IN  /\ Len(r) = Len(t)
            /\ \A i \in 1..Len(t) :
                  IF FirstOccurrence(t, i, "numFiles")
                  THEN r[i] = [k |-> "num", v |-> ToString(statusFiles(repo)), at |-> 0]
                  ELSE IF FirstOccurrence(t, i, "date")
                  THEN r[i] = [k |-> "date", v |-> settings.commitDateFormat, at |-> now]
                  ELSE r[i] = t[i]
            /\ (\A i \in 1..Len(t) : t[i].k # "ph") =>
                  /\ r = t
                  /\ formatCommitMessage(r, statusFiles(repo), settings.commitDateFormat,
                                         now) = r

C19_Witness ==
    /\ ev.preview # << >>
    /\ LET t == ev.preview[1].template
           r == ev.preview[1].rendered
       IN  /\ t = <<Placeholder("numFiles"), Placeholder("numFiles"), Placeholder("date")>>
           /\ r[1].k = "num" /\ r[1].v = "1"
           /\ r[2] = Placeholder("numFiles")
           /\ r[3].at > MessageTimeout

\* C20: while the pull on boot is in flight no timer is armed, no cycle is in
\* flight and CycleState is Pulling; the step that ends it with success and
\* completes the activation leaves CycleState Idle; and a cycle is started
\* only once the activation is complete.
C20_BootPullBeforeCycles ==
    [][/\ onloadPc' = "pull" => (timers' = {} /\ tasks' = {} /\ state' = "pull")
       /\ (onloadPc = "pull" /\ onloadPc' = "ready") => (state' = "idle" /\ tasks' = {})
       /\ ev'.started # "none" => (onloadPc = "ready" /\ onloadPc' = "ready")]_vars

C20_Witness ==
    /\ settings.autoPullOnBoot /\ lastUpdate # 0
    /\ ev.started = "timer" /\ Cardinality(tasks) = 1

====
